---- MODULE Spec2Model ----
(***************************************************************************)
(* Model of the clinical phenotyping pipeline:                             *)
(*   phenotyping_module.py  ValenceDetector.detect, PhenotypingEngine.tag, *)
(*                          DbWriter.write, ClinicalPhenotypingPipeline.run*)
(*   nlp_pipeline.py        NLPProcessor.section_segmenter, process_text,  *)
(*                          extract_section_text                           *)
(*   db_writer.py           DbWriter.write                                 *)
(*   db_reader.py           DbReader.read_notes, read_structured           *)
(*                                                                         *)
(* Python str values are sequences of one-character strings, so that       *)
(* str.lower, str.strip and the header regular expression are computed     *)
(* character by character.  Python dicts are functions.  Floats produced   *)
(* by (np.mean(vals) + 1) / 2 are exact fractions <<num, den>> in lowest   *)
(* terms.                                                                  *)
(***************************************************************************)
EXTENDS Integers, Sequences, FiniteSets, TLC

VARIABLES
    pc,                   \* position of the operation being modelled
    lexicon,              \* ValenceDetector.lexicon
    rules,                \* PhenotypingEngine.rules
    note_text,            \* the note text handed to the NLP processor
    doc,                  \* the spaCy Doc of the note being processed
    detections,           \* result of ValenceDetector.detect
    pheno_scores,         \* result of PhenotypingEngine.tag
    sections,             \* doc._.sections
    lookup,               \* last extract_section_text call and its result
    source,               \* what the notes / structured CSV files hold
    writer,               \* which DbWriter the pipeline is wired with
    notes,                \* run(): notes
    idx,                  \* run(): number of loop iterations completed
    phenotype_summaries,  \* run(): phenotype_summaries
    output_file,          \* content of DbWriter.output_path
    writes                \* number of DbWriter.write calls

vars == <<pc, lexicon, rules, note_text, doc, detections, pheno_scores, sections, lookup,
          source, writer, notes, idx, phenotype_summaries, output_file, writes>>

phenoVars == <<lexicon, rules, detections, pheno_scores>>
segVars == <<sections, lookup>>
runVars == <<source, writer, notes, idx, phenotype_summaries, output_file, writes>>

----------------------------------------------------------------------------
(* Bounds *)

MaxEnts == 2          \* entity spans per document
MaxSents == 2         \* sentences per document
MaxSentTokens == 2    \* tokens per sentence
MaxNotes == 2         \* note rows supplied by the data source

----------------------------------------------------------------------------
(* Characters and strings *)

NL == "\\n"
LongS == "U+017F"       \* LATIN SMALL LETTER LONG S
DotlessI == "U+0131"    \* LATIN SMALL LETTER DOTLESS I

Uppers == <<"A", "B", "C", "D", "E", "F", "G", "H", "I", "J", "K", "L", "M",
            "N", "O", "P", "Q", "R", "S", "T", "U", "V", "W", "X", "Y", "Z">>
Lowers == <<"a", "b", "c", "d", "e", "f", "g", "h", "i", "j", "k", "l", "m",
            "n", "o", "p", "q", "r", "s", "t", "u", "v", "w", "x", "y", "z">>

\* str.lower() on one character; long s and dotless i are already lowercase
lower_char(c) ==
    IF \E k \in 1..26 : Uppers[k] = c
    THEN Lowers[CHOOSE k \in 1..26 : Uppers[k] = c]
    ELSE c

\* str.lower()
lower(s) == [k \in 1..Len(s) |-> lower_char(s[k])]

is_space(c) == c \in {" ", NL}

RECURSIVE lstrip(_)
lstrip(s) == IF s # <<>> /\ is_space(Head(s)) THEN lstrip(Tail(s)) ELSE s

RECURSIVE rstrip(_)
rstrip(s) ==
    IF s # <<>> /\ is_space(s[Len(s)])
    THEN rstrip(SubSeq(s, 1, Len(s) - 1))
    ELSE s

\* str.strip()
strip(s) == rstrip(lstrip(s))

\* one literal pattern character p against one text character c under re.I:
\* besides the two cases of the letter, Python's re lets "s" match long s
\* and "i" match dotless i
ignorecase_eq(p, c) ==
    \/ lower_char(c) = p
    \/ p = "s" /\ c = LongS
    \/ p = "i" /\ c = DotlessI

\* an alternative of the pattern matched against the whole of s
literal_match(h, s) ==
    /\ Len(s) = Len(h)
    /\ \A k \in 1..Len(h) : ignorecase_eq(h[k], s[k])

----------------------------------------------------------------------------
(* Terms of the valence lexicon and of the phenotyping rules *)

E_Fever == <<"F", "e", "v", "e", "r">>
fever == <<"f", "e", "v", "e", "r">>
no_fever == <<"n", "o", " ", "f", "e", "v", "e", "r">>
cough == <<"c", "o", "u", "g", "h">>
headache == <<"h", "e", "a", "d", "a", "c", "h", "e">>

\* texts of the entity spans the annotator may recognise
EntTexts == {E_Fever, fever, no_fever, cough, headache}

RECURSIVE SeqsUpTo(_, _)
SeqsUpTo(S, n) ==
    IF n = 0 THEN {<<>>}
    ELSE LET shorter == SeqsUpTo(S, n - 1)
         IN  shorter \cup {Append(q, x) : q \in {r \in shorter : Len(r) = n - 1}, x \in S}

EmptyDict == [k \in {} |-> 0]

\* d[k] = v on a dict
dict_set(d, k, v) == [x \in DOMAIN d \cup {k} |-> IF x = k THEN v ELSE d[x]]

\* dict.get(k, default)
dict_get(d, k, default) == IF k \in DOMAIN d THEN d[k] ELSE default

----------------------------------------------------------------------------
(* ValenceDetector.detect *)

\* detect recording only the entity texts that are lexicon keys
RECURSIVE detect_loop_lexicon_only(_, _, _)
detect_loop_lexicon_only(lex, ents, results) ==
    IF ents = <<>> THEN results
    ELSE LET key == lower(Head(ents))
         IN  detect_loop_lexicon_only(lex, Tail(ents),
                IF key \in DOMAIN lex THEN dict_set(results, key, lex[key]) ELSE results)

RECURSIVE detect_loop(_, _, _)
detect_loop(lex, ents, results) ==
    IF ents = <<>> THEN results
    ELSE LET key == lower(Head(ents))
         IN  detect_loop(lex, Tail(ents), dict_set(results, key, dict_get(lex, key, 0)))

detect(lex, d) == detect_loop(lex, d.ents, EmptyDict)

----------------------------------------------------------------------------
(* PhenotypingEngine.tag *)

RECURSIVE GCD(_, _)
GCD(a, b) == IF b = 0 THEN a ELSE GCD(b, a % b)

\* the fraction n/d (d > 0, n >= 0 or n < 0) in lowest terms
Frac(n, d) ==
    LET a == IF n < 0 THEN -n ELSE n
        g == GCD(a, d)
    IN  <<n \div g, d \div g>>

Zero == <<0, 1>>

RECURSIVE SumSeq(_)
SumSeq(s) == IF s = <<>> THEN 0 ELSE Head(s) + SumSeq(Tail(s))

\* the inner loop: values of the keywords found in detected_tokens, in order
RECURSIVE collect(_, _)
collect(keywords, detected_tokens) ==
    IF keywords = <<>> THEN <<>>
    ELSE IF Head(keywords) \in DOMAIN detected_tokens
         THEN <<detected_tokens[Head(keywords)]>> \o collect(Tail(keywords), detected_tokens)
         ELSE collect(Tail(keywords), detected_tokens)

\* the defaultdict after the first loop: a key exists only once appended to
grouped_of(rls, detected_tokens) ==
    [group \in {g \in DOMAIN rls : collect(rls[g], detected_tokens) # <<>>}
        |-> collect(rls[group], detected_tokens)]

\* (np.mean(vals) + 1)/2 = (sum + n) / (2 n)
mean_score(vals) == Frac(SumSeq(vals) + Len(vals), 2 * Len(vals))

tag(rls, detected_tokens) ==
    LET grouped == grouped_of(rls, detected_tokens)
    IN  [group \in DOMAIN grouped |->
            IF grouped[group] # <<>> THEN mean_score(grouped[group]) ELSE Zero]

----------------------------------------------------------------------------
(* Documents.  A note text is given with the way the annotator splits it:  *)
(* its sentences (text and number of tokens of each) and its entity spans. *)
(* The raw string is the concatenation of the sentence texts.              *)

T_MedicationsColon == <<"M", "e", "d", "i", "c", "a", "t", "i", "o", "n", "s", ":">>
T_medications == <<"m", "e", "d", "i", "c", "a", "t", "i", "o", "n", "s">>
T_LabsColonNL == <<"L", "a", "b", "s", ":", NL>>
T_labsColonColon == <<"l", "a", "b", "s", ":", ":">>
T_Aspirin == <<"A", "s", "p", "i", "r", "i", "n">>
T_labLongS == <<"l", "a", "b", LongS>>
T_Blank == <<" ">>
T_Diagnosis == <<" ", "D", "I", "A", "G", "N", "O", "S", "I", "S">>

SentTexts == {T_MedicationsColon, T_medications, T_LabsColonNL, T_labsColonColon,
              T_Aspirin, T_labLongS, T_Blank, T_Diagnosis}

Sentences == [text : SentTexts, ntok : 1..MaxSentTokens]

\* is_str is FALSE for the float NaN that pandas.read_csv yields for an empty
\* cell under its default options
Text(sents, ents) == [is_str |-> TRUE, sents |-> sents, ents |-> ents]

NaN == [is_str |-> FALSE, sents |-> <<>>, ents |-> <<>>]

RECURSIVE raw(_)
raw(sents) == IF sents = <<>> THEN <<>> ELSE Head(sents).text \o raw(Tail(sents))

\* the tokens of one sentence: the first one starts the sentence, and
\* token.sent.text is the sentence's text for each of them
sent_tokens(s) ==
    [k \in 1..s.ntok |-> [is_sent_start |-> (k = 1), sent_text |-> s.text]]

RECURSIVE tokens_of(_)
tokens_of(sents) ==
    IF sents = <<>> THEN <<>> ELSE sent_tokens(Head(sents)) \o tokens_of(Tail(sents))

\* self.nlp(text) before the custom pipeline components run
annotate(text) == [tokens |-> tokens_of(text.sents), ents |-> text.ents]

EmptyText == Text(<<>>, <<>>)

----------------------------------------------------------------------------
(* NLPProcessor.section_segmenter *)

NoneEnd == -1     \* 'end': None, the end of a section that is still open

Headers == {
    <<"h", "i", "s", "t", "o", "r", "y", " ", "o", "f", " ", "p", "r", "e", "s", "e", "n", "t", " ", "i", "l", "l", "n", "e", "s", "s">>,
    <<"p", "h", "y", "s", "i", "c", "a", "l", " ", "e", "x", "a", "m">>,
    <<"a", "s", "s", "e", "s", "s", "m", "e", "n", "t", " ", "a", "n", "d", " ", "p", "l", "a", "n">>,
    <<"m", "e", "d", "i", "c", "a", "t", "i", "o", "n", "s">>,
    <<"i", "m", "p", "r", "e", "s", "s", "i", "o", "n">>,
    <<"l", "a", "b", "s">>,
    <<"d", "i", "a", "g", "n", "o", "s", "i", "s">>}

\* (alternatives):? against the whole of s
header_colon_match(s) ==
    \/ \E h \in Headers : literal_match(h, s)
    \/ /\ s # <<>>
       /\ s[Len(s)] = ":"
       /\ \E h \in Headers : literal_match(h, SubSeq(s, 1, Len(s) - 1))

\* pattern.match(s) for ^(...):?$ with re.I; $ also matches just before a
\* newline that ends the string
pattern_match(s) ==
    \/ header_colon_match(s)
    \/ /\ s # <<>>
       /\ s[Len(s)] = NL
       /\ header_colon_match(SubSeq(s, 1, Len(s) - 1))

\* sections[-1]['end'] = e
close_last(secs, e) == [secs EXCEPT ![Len(secs)].end = e]

\* the loop body closing the previous section at i instead of i - 1
segment_token_close_at_i(secs, token, i) ==
    IF token.is_sent_start
    THEN LET sent_text == lower(strip(token.sent_text))
         IN  IF pattern_match(sent_text)
             THEN Append(IF secs # <<>> THEN close_last(secs, i) ELSE secs,
                         [title |-> sent_text, start |-> i, end |-> NoneEnd])
             ELSE secs
    ELSE secs

\* the loop body opening the first section at section_start = 0 instead of i
segment_token_from_section_start(secs, token, i) ==
    IF token.is_sent_start
    THEN LET sent_text == lower(strip(token.sent_text))
         IN  IF pattern_match(sent_text)
             THEN Append(IF secs # <<>> THEN close_last(secs, i - 1) ELSE secs,
                         [title |-> sent_text,
                          start |-> IF secs = <<>> THEN 0 ELSE i,
                          end |-> NoneEnd])
             ELSE secs
    ELSE secs

\* the body of the for loop for token i (0-based)
segment_token(secs, token, i) ==
    IF token.is_sent_start
    THEN LET sent_text == lower(strip(token.sent_text))
         IN  IF pattern_match(sent_text)
             THEN Append(IF secs # <<>> THEN close_last(secs, i - 1) ELSE secs,
                         [title |-> sent_text, start |-> i, end |-> NoneEnd])
             ELSE secs
    ELSE secs

RECURSIVE segment_loop(_, _, _)
segment_loop(tokens, i, secs) ==
    IF i >= Len(tokens) THEN secs
    ELSE segment_loop(tokens, i + 1, segment_token(secs, tokens[i + 1], i))

section_segmenter(d) ==
    LET secs == segment_loop(d.tokens, 0, <<>>)
    IN  IF secs # <<>> THEN close_last(secs, Len(d.tokens) - 1) ELSE secs

\* self.nlp(text) of NLPProcessor: the annotator, then the segmenter as the
\* last pipeline component
nlp(text) ==
    LET d == annotate(text)
    IN  [doc |-> d, sections |-> section_segmenter(d)]

\* not text or not text.strip()
is_blank(text) == raw(text.sents) = <<>> \/ strip(raw(text.sents)) = <<>>

process_text(text) == IF is_blank(text) THEN nlp(EmptyText) ELSE nlp(text)

----------------------------------------------------------------------------
(* NLPProcessor.extract_section_text.  The result is the slice             *)
(* doc[start : end + 1], given by its two token indices, or None.          *)

NoSpan == [found |-> FALSE, start |-> NoneEnd, end |-> NoneEnd]

RECURSIVE extract_section_text(_, _)
extract_section_text(secs, section_title) ==
    IF secs = <<>> THEN NoSpan
    ELSE IF lower(Head(secs).title) = lower(section_title)
         THEN [found |-> TRUE, start |-> Head(secs).start, end |-> Head(secs).end]
         ELSE extract_section_text(Tail(secs), section_title)

medications == <<"m", "e", "d", "i", "c", "a", "t", "i", "o", "n", "s">>
labs == <<"l", "a", "b", "s">>
diagnosis == <<"d", "i", "a", "g", "n", "o", "s", "i", "s">>
Q_LABS == <<"L", "A", "B", "S">>
Q_medicationsColon == <<"m", "e", "d", "i", "c", "a", "t", "i", "o", "n", "s", ":">>

\* section titles asked for
Titles == {medications, labs, diagnosis, Q_LABS, Q_medicationsColon}

----------------------------------------------------------------------------
(* Configurations *)

\* the lexicon of the usage example, without 'no cough'
ExampleLexicon == (fever :> 1) @@ (no_fever :> -1) @@ (cough :> 1)

Polarities == {-1, 0, 1}

\* lexicons over fever and cough, each absent or with any polarity, with or
\* without the negated term
Lexicons ==
    {[k \in K |-> IF k = no_fever THEN -1 ELSE f[k]] :
        K \in SUBSET {fever, cough, no_fever}, f \in [{fever, cough} -> Polarities]}

TriggerLists == {<<>>, <<fever>>, <<fever, cough>>, <<no_fever>>, <<headache>>}

Groups == {"INFECTION", "PAIN"}

RuleSets == UNION {[G -> TriggerLists] : G \in SUBSET Groups}

ExampleRules == ("INFECTION" :> <<fever, cough>>)

NoDoc == [tokens |-> <<>>, ents |-> <<>>]
NoLookup == [title |-> <<>>, result |-> NoSpan]
NoSource == [notes_ok |-> TRUE, structured_ok |-> TRUE, rows |-> <<>>]
Unwritten == [written |-> FALSE, rows |-> <<>>]
TemplateWriter == [cls |-> "phenotyping_module", file_format |-> "csv"]

\* a document with the entity spans ents, one token per span
EntDoc(ents) ==
    [tokens |-> [k \in 1..Len(ents) |-> [is_sent_start |-> (k = 1), sent_text |-> T_Aspirin]],
     ents |-> ents]

----------------------------------------------------------------------------
(* PhenoSpec: detect and tag applied to every lexicon, rule set and        *)
(* sequence of entity spans within the bounds                              *)

InitPheno ==
    /\ pc = "pheno_start"
    /\ lexicon \in Lexicons
    /\ rules \in RuleSets
    /\ doc \in {EntDoc(e) : e \in SeqsUpTo(EntTexts, MaxEnts)}
    /\ note_text = EmptyText
    /\ detections = EmptyDict
    /\ pheno_scores = EmptyDict
    /\ sections = <<>>
    /\ lookup = NoLookup
    /\ source = NoSource
    /\ writer = TemplateWriter
    /\ notes = <<>>
    /\ idx = 0
    /\ phenotype_summaries = <<>>
    /\ output_file = Unwritten
    /\ writes = 0

Detect ==
    /\ pc = "pheno_start"
    /\ detections' = detect(lexicon, doc)
    /\ pc' = "detected"
    /\ UNCHANGED <<lexicon, rules, note_text, doc, pheno_scores, segVars, runVars>>

Tag ==
    /\ pc = "detected"
    /\ pheno_scores' = tag(rules, detections)
    /\ pc' = "tagged"
    /\ UNCHANGED <<lexicon, rules, note_text, doc, detections, segVars, runVars>>

NextPheno == Detect \/ Tag

PhenoSpec == InitPheno /\ [][NextPheno]_vars

----------------------------------------------------------------------------
(* SegSpec: process_text, then extract_section_text, applied to every note *)
(* text within the bounds                                                  *)

\* notes of three sentences: text before, between or after two header lines
PrefacedSentences ==
    [text : {T_Aspirin, T_MedicationsColon, T_LabsColonNL}, ntok : 1..MaxSentTokens]

PrefacedTexts ==
    {Text(<<a, b, c>>, <<>>) : a \in PrefacedSentences, b \in PrefacedSentences,
                               c \in PrefacedSentences}

SegTexts == {Text(ss, <<>>) : ss \in SeqsUpTo(Sentences, MaxSents)} \cup PrefacedTexts

InitSeg ==
    /\ pc = "seg_start"
    /\ note_text \in SegTexts
    /\ lexicon = ExampleLexicon
    /\ rules = ExampleRules
    /\ doc = NoDoc
    /\ detections = EmptyDict
    /\ pheno_scores = EmptyDict
    /\ sections = <<>>
    /\ lookup = NoLookup
    /\ source = NoSource
    /\ writer = TemplateWriter
    /\ notes = <<>>
    /\ idx = 0
    /\ phenotype_summaries = <<>>
    /\ output_file = Unwritten
    /\ writes = 0

ProcessText ==
    /\ pc = "seg_start"
    /\ LET r == process_text(note_text)
       IN  /\ doc' = r.doc
           /\ sections' = r.sections
    /\ pc' = "processed"
    /\ UNCHANGED <<note_text, lookup, phenoVars, runVars>>

ExtractSectionText ==
    /\ pc \in {"processed", "looked_up"}
    /\ \E t \in Titles :
          lookup' = [title |-> t, result |-> extract_section_text(sections, t)]
    /\ pc' = "looked_up"
    /\ UNCHANGED <<note_text, doc, sections, phenoVars, runVars>>

NextSeg == ProcessText \/ ExtractSectionText

SegSpec == InitSeg /\ [][NextSeg]_vars

----------------------------------------------------------------------------
(* Spec: one run of ClinicalPhenotypingPipeline.run *)

T_Note == T_Aspirin

\* note texts of the data source: empty, whitespace-only, an empty cell read
\* back as NaN, and texts in which the annotator recognises entities
RunTexts ==
    {EmptyText, Text(<<[text |-> T_Blank, ntok |-> 1]>>, <<>>), NaN}
    \cup {Text(<<[text |-> T_Note, ntok |-> 1]>>, e) :
            e \in {<<fever>>, <<no_fever>>, <<headache>>, <<E_Fever, cough>>}}

PatientIds == {"p1", "p2"}

NoteRows == [patient_id : PatientIds, note_text : RunTexts]

Sources ==
    {[notes_ok |-> a, structured_ok |-> b, rows |-> r] :
        a \in BOOLEAN, b \in BOOLEAN, r \in SeqsUpTo(NoteRows, MaxNotes)}

\* the DbWriter of phenotyping_module.py, and the one of db_writer.py with
\* its file_format argument
Writers ==
    {TemplateWriter,
     [cls |-> "db_writer", file_format |-> "csv"],
     [cls |-> "db_writer", file_format |-> "parquet"]}

RunRuleSets ==
    {ExampleRules,
     ("INFECTION" :> <<fever, cough>>) @@ ("PAIN" :> <<headache>>)}

Init ==
    /\ pc = "Idle"
    /\ lexicon = ExampleLexicon
    /\ rules \in RunRuleSets
    /\ source \in Sources
    /\ writer \in Writers
    /\ note_text = EmptyText
    /\ doc = NoDoc
    /\ detections = EmptyDict
    /\ pheno_scores = EmptyDict
    /\ sections = <<>>
    /\ lookup = NoLookup
    /\ notes = <<>>
    /\ idx = 0
    /\ phenotype_summaries = <<>>
    /\ output_file = Unwritten
    /\ writes = 0

\* notes = self.reader.read_notes(): the rows in file order, or an exception
read_notes ==
    /\ pc = "Idle"
    /\ IF source.notes_ok
       THEN /\ notes' = source.rows
            /\ pc' = "Reading"
       ELSE /\ notes' = notes
            /\ pc' = "Failed"
    /\ UNCHANGED <<lexicon, rules, note_text, doc, detections, pheno_scores,
                   segVars, source, writer, idx, phenotype_summaries,
                   output_file, writes>>

\* structured = self.reader.read_structured(); phenotype_summaries = []
read_structured ==
    /\ pc = "Reading"
    /\ pc' = IF source.structured_ok THEN "ForEachNote" ELSE "Failed"
    /\ phenotype_summaries' = <<>>
    /\ UNCHANGED <<lexicon, rules, note_text, doc, detections, pheno_scores,
                   segVars, source, writer, notes, idx, output_file, writes>>

\* NLPProcessor.process_note of phenotyping_module.py
process_note(text) == annotate(text)

\* {**a, **b}
dict_merge(a, b) ==
    [k \in DOMAIN a \cup DOMAIN b |-> IF k \in DOMAIN b THEN b[k] ELSE a[k]]

\* {'patient_id': note['patient_id'], **pheno_scores}
summary_of(note, scores) == dict_merge("patient_id" :> note.patient_id, scores)

\* an append that keeps one record per patient: a later note of the same
\* patient replaces the patient's record
append_summary_per_patient(summaries, summary) ==
    IF \E k \in 1..Len(summaries) : summaries[k]["patient_id"] = summary["patient_id"]
    THEN [k \in 1..Len(summaries) |->
            IF summaries[k]["patient_id"] = summary["patient_id"]
            THEN summary ELSE summaries[k]]
    ELSE Append(summaries, summary)

\* phenotype_summaries.append(summary)
append_summary(summaries, summary) == Append(summaries, summary)

\* one iteration of the for loop; spaCy raises on a text that is not a str
loop_body ==
    /\ pc = "ForEachNote"
    /\ idx < Len(notes)
    /\ LET note == notes[idx + 1]
       IN  IF ~note.note_text.is_str
           THEN /\ pc' = "Failed"
                /\ note_text' = note.note_text
                /\ UNCHANGED <<doc, detections, pheno_scores, idx, phenotype_summaries>>
           ELSE /\ note_text' = note.note_text
                /\ doc' = process_note(note.note_text)
                /\ detections' = detect(lexicon, doc')
                /\ pheno_scores' = tag(rules, detections')
                /\ phenotype_summaries' =
                      append_summary(phenotype_summaries, summary_of(note, pheno_scores'))
                /\ idx' = idx + 1
                /\ pc' = "ForEachNote"
    /\ UNCHANGED <<lexicon, rules, segVars, source, writer, notes, output_file, writes>>

\* pd.DataFrame(data).empty: no row or no column
df_empty(data) == data = <<>> \/ \A k \in 1..Len(data) : DOMAIN data[k] = {}

\* DbWriter.write of phenotyping_module.py: no check before to_csv
template_write_raises(data) == FALSE

\* DbWriter.write of db_writer.py: the exceptions raised before to_csv
db_writer_write_raises(w, data) ==
    \/ data = <<>>
    \/ df_empty(data)
    \/ w.file_format # "csv"

write_raises(w, data) ==
    IF w.cls = "db_writer" THEN db_writer_write_raises(w, data)
    ELSE template_write_raises(data)

\* a write of the records so far at the end of every iteration
write_each_iteration ==
    /\ pc = "ForEachNote"
    /\ idx > 0 \/ idx = Len(notes)
    /\ writes < Len(notes) + 1
    /\ writes' = writes + 1
    /\ output_file' = [written |-> TRUE, rows |-> phenotype_summaries]
    /\ pc' = IF idx = Len(notes) THEN "Done" ELSE "ForEachNote"
    /\ UNCHANGED <<lexicon, rules, note_text, doc, detections, pheno_scores,
                   segVars, source, writer, notes, idx, phenotype_summaries>>

\* self.writer.write(phenotype_summaries), once the loop is over; to_csv
\* itself succeeds or fails with the destination
write ==
    /\ pc = "ForEachNote"
    /\ idx = Len(notes)
    /\ writes' = writes + 1
    /\ IF write_raises(writer, phenotype_summaries)
       THEN /\ pc' = "Failed"
            /\ output_file' = output_file
       ELSE \E io_ok \in BOOLEAN :
               IF io_ok
               THEN /\ output_file' = [written |-> TRUE, rows |-> phenotype_summaries]
                    /\ pc' = "Done"
               ELSE /\ output_file' = output_file
                    /\ pc' = "Failed"
    /\ UNCHANGED <<lexicon, rules, note_text, doc, detections, pheno_scores,
                   segVars, source, writer, notes, idx, phenotype_summaries>>

Next == read_notes \/ read_structured \/ loop_body \/ write

Spec == Init /\ [][Next]_vars

----------------------------------------------------------------------------
(* Properties of detect and tag (PhenoSpec) *)

\* the indices of the triggers of T that are keys of D
detected_triggers(T, D) == {k \in 1..Len(T) : T[k] \in DOMAIN D}

RECURSIVE polarity_sum(_, _, _)
polarity_sum(T, D, K) ==
    IF K = {} THEN 0
    ELSE LET k == CHOOSE x \in K : TRUE
         IN  D[T[k]] + polarity_sum(T, D, K \ {k})

\* (mean of D[t] over the detected t of T + 1) / 2
claimed_score(T, D) ==
    LET K == detected_triggers(T, D)
    IN  Frac(polarity_sum(T, D, K) + Cardinality(K), 2 * Cardinality(K))

\* a fraction in lowest terms lies in [0, 1]
in_unit_interval(q) == 0 <= q[1] /\ q[1] <= q[2]

\* C1: the key set of the mapping returned by tag equals exactly the set of
\* group names of the rule set, whatever the detection map
C1_KeysAreGroups ==
    pc = "tagged" => DOMAIN pheno_scores = DOMAIN rules

\* C2: for every group G with triggers T, if some term of T is a key of the
\* detection map D then score(G) = (mean of D[t] over the detected t + 1)/2,
\* which lies in [0,1]; if no term of T is a key of D, score(G) is 0.0
C2_ScoreOfEveryGroup ==
    pc = "tagged" =>
        \A G \in DOMAIN rules :
            /\ G \in DOMAIN pheno_scores
            /\ IF detected_triggers(rules[G], detections) # {}
               THEN /\ pheno_scores[G] = claimed_score(rules[G], detections)
                    /\ in_unit_interval(pheno_scores[G])
               ELSE pheno_scores[G] = Zero

\* the normalized entity texts of the document
entity_keys(d) == {lower(d.ents[k]) : k \in 1..Len(d.ents)}

\* C3 as stated: the detection map has as keys only normalized entity texts
\* that are keys of the lexicon, each mapped to lexicon[term]; an entity
\* outside the lexicon produces no entry
C3_OnlyLexiconTerms ==
    pc = "detected" =>
        /\ DOMAIN detections = entity_keys(doc) \cap DOMAIN lexicon
        /\ \A term \in DOMAIN detections : detections[term] = lexicon[term]

\* C3 as amended: the keys of the detection map are exactly the lowercased
\* entity texts of the document; a key of the lexicon is mapped to
\* lexicon[key], every other key to 0; the map is empty only when the
\* document has no entity
C3_EveryEntityRecorded ==
    pc = "detected" =>
        /\ DOMAIN detections = entity_keys(doc)
        /\ \A key \in DOMAIN detections :
              detections[key] = IF key \in DOMAIN lexicon THEN lexicon[key] ELSE 0
        /\ (detections = EmptyDict <=> doc.ents = <<>>)

\* a document with a capitalised entity of the lexicon and one outside it
C3_Witness ==
    /\ pc = "detected"
    /\ fever \in DOMAIN lexicon
    /\ doc.ents = <<E_Fever, headache>>
    /\ detections[headache] = 0
    /\ detections[fever] = lexicon[fever]

----------------------------------------------------------------------------
(* Properties of a run (Spec) *)

processed_blank(k) ==
    /\ k <= idx
    /\ notes[k].note_text.is_str
    /\ is_blank(notes[k].note_text)

\* C4: a note whose text is empty or whitespace-only is not dropped: the
\* run holds for it a record that carries the patient identifier and every
\* phenotype group of the rule set with score 0.0
C4_BlankNoteAllZero ==
    \A k \in 1..Len(notes) :
        processed_blank(k) =>
            /\ k <= Len(phenotype_summaries)
            /\ phenotype_summaries[k]["patient_id"] = notes[k].patient_id
            /\ \A G \in DOMAIN rules :
                  /\ G \in DOMAIN phenotype_summaries[k]
                  /\ phenotype_summaries[k][G] = Zero

\* C5: at every point of a run the output sequence holds exactly one record
\* for each note processed so far, in the order the notes were read: record
\* k carries the patient identifier of note k, also when two notes have the
\* same patient identifier
C5_OneRecordPerNoteInOrder ==
    /\ idx <= Len(notes)
    /\ Len(phenotype_summaries) = idx
    /\ \A k \in 1..idx : phenotype_summaries[k]["patient_id"] = notes[k].patient_id

\* two notes of the same patient have been processed
C5_Witness ==
    /\ idx = 2
    /\ notes[1].patient_id = notes[2].patient_id
    /\ Len(phenotype_summaries) = 2
    /\ phenotype_summaries[1]["patient_id"] = phenotype_summaries[2]["patient_id"]

\* C6: when write receives an empty record sequence it reports an error and
\* leaves the destination unwritten, so the run ends in Failed, not Done
C6_EmptyWriteFails ==
    (writes > 0 /\ phenotype_summaries = <<>>) =>
        (pc = "Failed" /\ ~output_file.written)

Terminal == {"Done", "Failed"}

\* the run failed while reading or while processing a note
failed_before_writing ==
    /\ pc = "Failed"
    /\ \/ ~source.notes_ok
       \/ ~source.structured_ok
       \/ idx < Len(notes)

\* the number of steps of run() executed so far; a terminal state counts as
\* the last step a run over these notes can have
last_step == Len(source.rows) + 3

run_progress ==
    CASE pc = "Idle" -> 0
      [] pc = "Reading" -> 1
      [] pc = "ForEachNote" -> 2 + idx
      [] pc \in Terminal -> last_step

C10_Inv ==
    /\ writes <= 1
    /\ writes = 1 =>
          /\ notes = source.rows
          /\ idx = Len(notes)
          /\ Len(phenotype_summaries) = Len(notes)
          /\ pc \in Terminal
    /\ output_file.written =>
          /\ writes = 1
          /\ pc = "Done"
          /\ output_file.rows = phenotype_summaries
    /\ failed_before_writing => (writes = 0 /\ ~output_file.written)
    /\ pc = "Done" => writes = 1
    /\ pc \notin Terminal => (run_progress < last_step /\ ENABLED Next)

\* C10: the sink is written at most once and only after every note read has
\* been processed and emitted; a run that fails while reading or processing
\* a note has not written the sink; every run ends in Done or in Failed:
\* short of them a next step exists, every step brings the run closer to
\* them, and no step leaves them
C10_WriteOnceAtEnd ==
    /\ []C10_Inv
    /\ [][run_progress' > run_progress]_vars
    /\ [][(pc \in Terminal) => (pc' = pc)]_vars

\* a run over two notes that wrote the sink
C10_Witness ==
    /\ pc = "Done"
    /\ Len(notes) = 2
    /\ writes = 1
    /\ Len(output_file.rows) = 2

----------------------------------------------------------------------------
(* Properties of the segmenter and of the section lookup (SegSpec) *)

segmented == pc \in {"processed", "looked_up"}

\* C7: the sections are in document order and non-overlapping (each end is
\* strictly below the next start), every section has end >= start, and the
\* last section's end is the index of the document's final token
C7_SectionsOrdered ==
    segmented =>
        /\ \A k \in 1..Len(sections) :
              /\ 0 <= sections[k].start
              /\ sections[k].end >= sections[k].start
              /\ k < Len(sections) => sections[k].end < sections[k + 1].start
        /\ sections # <<>> => sections[Len(sections)].end = Len(doc.tokens) - 1

\* two sections of two tokens each
C7_Witness ==
    /\ pc = "processed"
    /\ Len(sections) = 2
    /\ Len(doc.tokens) = 4
    /\ sections[1].start = 0 /\ sections[1].end = 1
    /\ sections[2].start = 2 /\ sections[2].end = 3

\* trim, lowercase, strip a single trailing colon
strip_colon(s) ==
    IF s # <<>> /\ s[Len(s)] = ":" THEN SubSeq(s, 1, Len(s) - 1) ELSE s

normalized(s) == strip_colon(lower(strip(s)))

has_sentence(text, t) == \E k \in 1..Len(text.sents) : text.sents[k].text = t

\* C8: every stored title is the header sentence trimmed, lowercased and
\* with a single trailing colon stripped, hence one of the seven recognized
\* header strings; so for a document whose header line is "Medications:"
\* the lookup of "medications" finds that section
C8_TitleIsHeaderString ==
    segmented =>
        /\ \A k \in 1..Len(sections) : sections[k].title \in Headers
        /\ (/\ pc = "looked_up"
            /\ lookup.title = medications
            /\ has_sentence(note_text, T_MedicationsColon))
           => lookup.result.found

\* C9: for a document in which no sentence, after normalization, equals a
\* recognized header, the segmenter returns the empty section sequence and
\* the lookup reports not-found for every title
C9_NoHeaderNoSection ==
    (/\ segmented
     /\ \A k \in 1..Len(note_text.sents) :
            normalized(note_text.sents[k].text) \notin Headers)
    => /\ sections = <<>>
       /\ pc = "looked_up" => ~lookup.result.found

\* token i (0-based) of the document starts a sentence that the segmenter's
\* pattern recognizes as a header
is_header_token(d, i) ==
    /\ d.tokens[i + 1].is_sent_start
    /\ pattern_match(lower(strip(d.tokens[i + 1].sent_text)))

in_section(i) == \E k \in 1..Len(sections) : sections[k].start <= i /\ i <= sections[k].end

\* C11: when the section sequence is non-empty, the sections tile the token
\* range from the first recognized header to the end of the document with
\* no gap: each next start is the previous end + 1, each start is the index
\* of a sentence-initial header token, every token from the first header on
\* is in a section, and every token before the first header is in none
C11_SectionsTileFromFirstHeader ==
    (segmented /\ sections # <<>>) =>
        LET n == Len(doc.tokens)
            first == sections[1].start
        IN  /\ \A k \in 1..(Len(sections) - 1) :
                  sections[k + 1].start = sections[k].end + 1
            /\ \A k \in 1..Len(sections) :
                  /\ sections[k].start \in 0..(n - 1)
                  /\ is_header_token(doc, sections[k].start)
            /\ \A i \in 0..(n - 1) :
                  /\ i < first => (~is_header_token(doc, i) /\ ~in_section(i))
                  /\ i >= first => in_section(i)

\* two tokens of text, then two header lines of two tokens each
C11_Witness ==
    /\ pc = "processed"
    /\ Len(doc.tokens) = 6
    /\ Len(sections) = 2
    /\ sections[1].start = 2 /\ sections[1].end = 3
    /\ sections[2].start = 4 /\ sections[2].end = 5
    /\ ~in_section(0) /\ ~in_section(1)

====
